---- MODULE Spec2Model ----
(***************************************************************************)
(* A model of the jQuery selectionList plugin (the keyboard-navigable      *)
(* dropdown) and of the quickBar plugin's Command matcher.                 *)
(*                                                                         *)
(* Every method of the SelectionList class is an operator from a widget    *)
(* state (a record) to the widget state after the call; the actions apply  *)
(* the event handlers and the public methods to the current state.         *)
(***************************************************************************)
EXTENDS Integers, Sequences, FiniteSets, TLC

\* ------------------------------------------------------------------ bounds

\* The longest item list the model builds.
MaxItems == 3

\* The longest result list one search delivers.
MaxResults == 2

\* The items an application adds to the list (opaque to the widget).
ItemValues == {"one", "two", "three"}

\* JavaScript's undefined, as read from an array index that holds nothing.
Undefined == "undefined"

\* The key codes delivered to the input field: enter, escape, up, down, and
\* one key the widget does not handle.
Keys == {13, 27, 38, 40, 65}

\* All item lists of at most n items.
RECURSIVE ListsUpTo(_)
ListsUpTo(n) ==
    IF n = 0 THEN {<<>>}
    ELSE LET shorter == ListsUpTo(n - 1)
         IN shorter \cup {Append(l, v) : l \in {x \in shorter : Len(x) = n - 1}, v \in ItemValues}

\* ------------------------------------------------------------------- state

VARIABLES
    items,        \* SelectionList.items: the items, in order
    highlighted,  \* SelectionList.highlighted: 0-based index, -1 when none
    vis,          \* SelectionList._vis, by its truthiness
    lis,          \* the dropdown's li elements: TRUE where the li carries highlightClass
    fired,        \* the 'select' events the last handler triggered: <<index, item>>
    threw,        \* whether the last handler ended by throwing
    lastOp,       \* history: the last handler or method that ran
    nav,          \* history: the run of consecutive Down (or Up) presses since nothing was highlighted
    chain,        \* history: progress through the sequence Enter (commit), Down, Enter
    matchCache,   \* Command._matchCache of each command: its own keys and their values
    reCache,      \* Command._reCache: its own keys and their values
    ret,          \* the last isMatch call: the command, the query, what it returned
    calls,        \* the calls of the matcher on freshly constructed sample commands
    qbVis,        \* QuickBar._vis, by its truthiness
    value,        \* the text in the entry field: input.val()
    lastChars,    \* QuickBar._lastChars
    timers,       \* the timeouts set by setTimeout that have neither fired nor been cleared
    searchTimer,  \* QuickBar._searchTimer: the handle setTimeout returned last, 0 before the first
    askingForArg, \* QuickBar._askingForArg, by its truthiness
    argHandlers,  \* the bound keypress.quickBarArg handlers: the command each one closes over
    catalog,      \* LocalCommandSource.commands: the commands, by their place in Commands
    inflight,     \* the ajax requests not yet answered: the query, whether it is me._xhr
    isString,     \* whether the page's jQuery object has a member isString
    searched,     \* history: the source.search calls of the last handler
    delivered,    \* history: the callback calls the sources made in the last handler
    answered,     \* history: the request whose response the last handler received
    execd,        \* history: the commands the last handler executed, with their argument
    lastDispatched, \* history: the query of the last search handed to the sources
    burst,        \* history: whether the burst of key releases before the last timeout left a timeout unused
    label,        \* the text of the quick bar's label element
    globalKey,    \* history: the keydown event on the document that the last handler received
    fresh,        \* history: whether no timeout found a text in the field since the quick bar was opened or the argument mode ended
    pending       \* the callbacks given to show and hide whose animation has not completed

slVars == <<items, highlighted, vis, lis, fired, threw, lastOp, nav, chain, pending>>

cmdVars == <<matchCache, reCache, ret>>

qbVars == <<qbVis, value, lastChars, timers, searchTimer, askingForArg, argHandlers,
            catalog, inflight, isString, searched, delivered, answered, execd,
            lastDispatched, burst, label, globalKey, fresh>>

vars == <<items, highlighted, vis, lis, fired, threw, lastOp, nav, chain,
          matchCache, reCache, ret, calls,
          qbVis, value, lastChars, timers, searchTimer, askingForArg, argHandlers,
          catalog, inflight, isString, searched, delivered, answered, execd,
          lastDispatched, burst, label, globalKey, fresh, pending>>

\* The widget as the record the method operators work on. fired and error
\* collect what one handler does: the events it triggers, whether it threw.
SL == [items |-> items, highlighted |-> highlighted, vis |-> vis, lis |-> lis,
       fired |-> <<>>, error |-> FALSE, pending |-> pending]

\* -------------------------------------------------------- array primitives

\* arr[idx] for a 0-based idx: undefined where the array holds nothing.
At(arr, idx) == IF idx >= 0 /\ idx < Len(arr) THEN arr[idx + 1] ELSE Undefined

\* $.inArray(item, arr): the 0-based index of the first occurrence, or -1.
inArray(item, arr) ==
    IF \E i \in 1..Len(arr) : arr[i] = item
    THEN (CHOOSE i \in 1..Len(arr) : arr[i] = item /\ \A j \in 1..(i - 1) : arr[j] # item) - 1
    ELSE -1

\* arr.splice(idx, 1) for a 0-based idx inside arr.
splice(arr, idx) == SubSeq(arr, 1, idx) \o SubSeq(arr, idx + 2, Len(arr))

\* lis.eq(idx).addClass(cls) / removeClass(cls): nothing when no li is at idx.
setClass(l, idx, on) == IF idx >= 0 /\ idx < Len(l) THEN [l EXCEPT ![idx + 1] = on] ELSE l

\* -------------------------------------------------- SelectionList methods

addItem(s, item) ==
    [s EXCEPT !.items = Append(@, item), !.lis = Append(@, FALSE)]

removeItem(s, item) ==
    LET idx == inArray(item, s.items)
        s1 == IF idx >= 0
              THEN [s EXCEPT !.items = splice(@, idx), !.lis = splice(@, idx)]
              ELSE s
    IN IF Len(s1.items) = 0 THEN [s1 EXCEPT !.vis = FALSE] ELSE s1

clear(s) == [s EXCEPT !.lis = <<>>, !.items = <<>>]

hide(s) ==
    IF s.vis THEN [s EXCEPT !.vis = FALSE, !.highlighted = -1] ELSE s

show(s) ==
    IF ~s.vis THEN [s EXCEPT !.vis = TRUE] ELSE s

\* show(callback): slideDown(100, callback) is reached only when the dropdown
\* was hidden; the element's effects queue calls the callbacks in order.
show_callback(s, callback) ==
    IF ~s.vis THEN [show(s) EXCEPT !.pending = Append(@, callback)] ELSE s

\* hide(callback): slideUp(100, callback) is reached only when the dropdown
\* was visible.
hide_callback(s, callback) ==
    IF s.vis THEN [hide(s) EXCEPT !.pending = Append(@, callback)] ELSE s

\* scrollIntoView(li) reads li.offset().top, which throws when li is the empty
\* set, that is when no li is at idx.
highlight(s, idx) ==
    LET oldIdx == s.highlighted
        s1 == IF oldIdx # idx /\ oldIdx >= 0
              THEN [s EXCEPT !.lis = setClass(@, oldIdx, FALSE)]
              ELSE s
    IN IF oldIdx # idx /\ idx >= 0
       THEN LET s2 == show([s1 EXCEPT !.lis = setClass(@, idx, TRUE)])
            IN IF idx < Len(s2.lis)
               THEN [s2 EXCEPT !.highlighted = idx]
               ELSE [s2 EXCEPT !.error = TRUE]
       ELSE [s1 EXCEPT !.highlighted = idx]

\* next as the wrap-around test of the suite expects it: from the last item
\* straight to the first.
next_wrapToFirst(s) ==
    highlight(s, IF s.highlighted >= Len(s.items) - 1 THEN 0 ELSE s.highlighted + 1)

\* selectHighlighted without its guard on the highlighted index.
selectHighlighted_noGuard(s) ==
    LET idx == s.highlighted
    IN hide([s EXCEPT !.fired = Append(@, <<idx, At(s.items, idx)>>)])

prev(s) ==
    highlight(s, IF s.highlighted < 0 THEN Len(s.items) - 1 ELSE s.highlighted - 1)

next(s) ==
    highlight(s, IF s.highlighted >= Len(s.items) - 1 THEN -1 ELSE s.highlighted + 1)

selectHighlighted(s) ==
    LET idx == s.highlighted
    IN IF idx >= 0
       THEN hide([s EXCEPT !.fired = Append(@, <<idx, At(s.items, idx)>>)])
       ELSE s

onKeypress(s, key) ==
    IF key = 27 THEN hide(s)
    ELSE IF key = 13 THEN selectHighlighted(s)
    ELSE s

onKeydown(s, key) ==
    IF key = 38 THEN prev(s)
    ELSE IF key = 40 THEN next(s)
    ELSE s

\* target: li.index() of the li the pointer is over, -1 when it is over none.
onOver(s, target) == highlight(s, target)

onClick(s, target) ==
    LET s1 == onOver(s, target)
    IN IF s1.error THEN s1 ELSE selectHighlighted(s1)

\* new SelectionList({items: list}): an empty list, then addItem for each.
RECURSIVE addItems(_, _)
addItems(s, list) ==
    IF list = <<>> THEN s ELSE addItems(addItem(s, Head(list)), Tail(list))

\* QuickBar.handleResult(commands): addItem for each command, then show.
handleResult(s, commands) == show(addItems(s, commands))

\* QuickBar.search with a new query and one in-memory source that has matches:
\* the list is cleared, and the source calls handleResult synchronously.
search(s, commands) ==
    IF commands = <<>> THEN clear(s) ELSE handleResult(clear(s), commands)

\* ------------------------------------------------------------- characters

UpperCase == "ABCDEFGHIJKLMNOPQRSTUVWXYZ"

LowerCase == "abcdefghijklmnopqrstuvwxyz"

Digits == "0123456789"

\* str.charAt(i - 1): the i-th character, counted from 1.
Ch(str, i) == SubSeq(str, i, i)

CharsOf(str) == {Ch(str, i) : i \in 1..Len(str)}

UpperSet == CharsOf(UpperCase)

LetterSet == CharsOf(UpperCase) \cup CharsOf(LowerCase)

\* \w of a regular expression.
WordSet == LetterSet \cup CharsOf(Digits) \cup {"_"}

\* \s of a regular expression, as far as the model's strings go.
SpaceSet == {" "}

\* The case folding of the 'i' flag.
ToLower(c) ==
    IF c \in UpperSet
    THEN Ch(LowerCase, CHOOSE i \in 1..Len(UpperCase) : Ch(UpperCase, i) = c)
    ELSE c

ToUpper(c) ==
    IF c \in CharsOf(LowerCase)
    THEN Ch(UpperCase, CHOOSE i \in 1..Len(LowerCase) : Ch(LowerCase, i) = c)
    ELSE c

\* str.toLowerCase() and str.toUpperCase().
RECURSIVE toLowerCase(_)
toLowerCase(str) ==
    IF Len(str) = 0 THEN ""
    ELSE ToLower(Ch(str, 1)) \o toLowerCase(SubSeq(str, 2, Len(str)))

RECURSIVE toUpperCase(_)
toUpperCase(str) ==
    IF Len(str) = 0 THEN ""
    ELSE ToUpper(Ch(str, 1)) \o toUpperCase(SubSeq(str, 2, Len(str)))

\* ---------------------------------------------------------------- commands

\* The keys every plain object inherits from Object.prototype: `key in obj` is
\* true of them and obj[key] reads the inherited member.
ProtoKeys ==
    {"constructor", "toString", "toLocaleString", "valueOf", "hasOwnProperty",
     "isPrototypeOf", "propertyIsEnumerable", "__proto__", "__defineGetter__",
     "__defineSetter__", "__lookupGetter__", "__lookupSetter__"}

\* What obj[key] reads for an inherited key: a function (or, for __proto__, an
\* object), which is truthy and is no boolean and no RegExp.
Inherited == "[inherited]"

\* The regexp configuration of a command: none, or /^lit/i.
NoRegExp == [kind |-> "none", lit |-> ""]

PrefixRegExp(lit) == [kind |-> "prefix", lit |-> lit]

\* The configured commands: the catalog of one in-memory source.
Commands ==
    << [name |-> "Google Search", aliases |-> <<"Search">>, regexp |-> NoRegExp],
       [name |-> "Go To URL", aliases |-> <<>>, regexp |-> NoRegExp],
       [name |-> "New Message", aliases |-> <<>>, regexp |-> PrefixRegExp("mail")],
       [name |-> "?", aliases |-> <<>>, regexp |-> NoRegExp],
       [name |-> "!", aliases |-> <<>>, regexp |-> PrefixRegExp("")],
       [name |-> "Logout", aliases |-> <<"Sign Out">>, regexp |-> NoRegExp],
       [name |-> "Link One", aliases |-> <<>>, regexp |-> NoRegExp],
       [name |-> "No Action", aliases |-> <<>>, regexp |-> NoRegExp],
       [name |-> "No Fn", aliases |-> <<>>, regexp |-> NoRegExp],
       [name |-> "No Url", aliases |-> <<>>, regexp |-> NoRegExp] >>

\* The commands configured for the local source of the quick bar, by their
\* place in Commands.
Catalog == <<1, 2, 6>>

\* The commands of the second local source, built from the links of the page.
LinkCatalog == <<7>>

\* Configurations whose action cannot be executed: no action, {type: 'fn'}
\* without fn, {type: 'url'} without url.
Malformed == {8, 9, 10}

\* command.action: a function or {type: 'fn', fn: ...}, {type: 'url', url: ...},
\* or one of the malformed ones.
action(name) ==
    IF name \in {"Google Search", "Go To URL", "Link One"} THEN "url"
    ELSE IF name = "No Action" THEN "none"
    ELSE IF name = "No Fn" THEN "fnNoFn"
    ELSE IF name = "No Url" THEN "urlNoUrl"
    ELSE "fn"

\* command.arg, by its truthiness, and command.argDefault || ''.
arg(name) == name \in {"Google Search", "Go To URL", "New Message"}

argDefault(name) == IF name = "Go To URL" THEN "http://" ELSE ""

\* command.arg where it is a string, the label of the argument; "" where it
\* is true or missing.
argText(name) ==
    IF name = "Go To URL" THEN "Location"
    ELSE IF name = "New Message" THEN "To"
    ELSE ""

\* The strings typed into the field.
Queries == {"", "go", "gTU", "se", "mail", "valueOf"}

\* The most entries the match caches hold together.
MaxCacheEntries == 2

\* ------------------------------------------------------ regular expressions

\* How many characters of str, from position p on, lie in the set cls.
RECURSIVE runLength(_, _, _)
runLength(cls, str, p) ==
    IF p <= Len(str) /\ Ch(str, p) \in cls THEN 1 + runLength(cls, str, p + 1) ELSE 0

\* The length of chars.match(/^[A-Za-z][^A-Z\s]*/)[0], 0 when there is no match.
RECURSIVE fragRest(_, _)
fragRest(chars, p) ==
    IF p <= Len(chars) /\ Ch(chars, p) \notin UpperSet /\ Ch(chars, p) \notin SpaceSet
    THEN 1 + fragRest(chars, p + 1)
    ELSE 0

fragLength(chars) ==
    IF Len(chars) >= 1 /\ Ch(chars, 1) \in LetterSet THEN 1 + fragRest(chars, 2) ELSE 0

\* str.replace(/^\s+/, '')
trimLeft(str) == SubSeq(str, runLength(SpaceSet, str, 1) + 1, Len(str))

\* The fragments the loop of getRE takes off the front of chars, in order.
RECURSIVE fragments(_)
fragments(chars) ==
    LET n == fragLength(chars)
    IN IF n = 0 THEN <<>>
       ELSE <<SubSeq(chars, 1, n)>> \o fragments(trimLeft(SubSeq(chars, n + 1, Len(chars))))

\* frag + '[a-z]*\\s*' as the atoms of the compiled expression. The characters
\* of a fragment are letters and digits, which a RegExp takes literally, and
\* parentheses, which open and close a group.
fragAtoms(frag) ==
    [i \in 1..Len(frag) |->
        IF Ch(frag, i) = "(" THEN [t |-> "open", c |-> ""]
        ELSE IF Ch(frag, i) = ")" THEN [t |-> "close", c |-> ""]
        ELSE [t |-> "lit", c |-> Ch(frag, i)]]
        \o << [t |-> "letters", c |-> ""], [t |-> "spaces", c |-> ""] >>

\* new RegExp(re.join(''), 'i') of ['\\b', fragment patterns ...]: the atoms
\* that follow the leading \b.
RECURSIVE compile(_)
compile(frags) ==
    IF frags = <<>> THEN <<>> ELSE fragAtoms(Head(frags)) \o compile(Tail(frags))

\* How many groups are open after the first k atoms; -1 once a group was
\* closed that was never opened.
RECURSIVE openGroups(_, _)
openGroups(atoms, k) ==
    IF k = 0 THEN 0
    ELSE LET n == openGroups(atoms, k - 1)
         IN IF n < 0 THEN -1
            ELSE IF atoms[k].t = "open" THEN n + 1
            ELSE IF atoms[k].t = "close" THEN n - 1
            ELSE n

\* Whether new RegExp accepts the pattern: every group is closed and nothing
\* is closed that was not opened. Otherwise it throws a SyntaxError.
validPattern(atoms) == openGroups(atoms, Len(atoms)) = 0

\* The match as a RegExp without the 'i' flag would make it.
RECURSIVE matchFrom_caseSensitive(_, _, _, _)
matchFrom_caseSensitive(atoms, k, str, p) ==
    IF k > Len(atoms) THEN TRUE
    ELSE IF atoms[k].t = "lit"
         THEN /\ p <= Len(str)
              /\ Ch(str, p) = atoms[k].c
              /\ matchFrom_caseSensitive(atoms, k + 1, str, p + 1)
         ELSE IF atoms[k].t \in {"open", "close"}
         THEN matchFrom_caseSensitive(atoms, k + 1, str, p)
         ELSE LET cls == IF atoms[k].t = "letters" THEN CharsOf(LowerCase) ELSE SpaceSet
              IN \E n \in 0..runLength(cls, str, p) :
                    matchFrom_caseSensitive(atoms, k + 1, str, p + n)

\* Whether atoms k.. match str from position p on. Under the 'i' flag a
\* literal matches either case and [a-z] matches every ASCII letter.
RECURSIVE matchFrom(_, _, _, _)
matchFrom(atoms, k, str, p) ==
    IF k > Len(atoms) THEN TRUE
    ELSE IF atoms[k].t = "lit"
         THEN /\ p <= Len(str)
              /\ ToLower(Ch(str, p)) = ToLower(atoms[k].c)
              /\ matchFrom(atoms, k + 1, str, p + 1)
         ELSE IF atoms[k].t \in {"open", "close"}
         THEN matchFrom(atoms, k + 1, str, p)
         ELSE LET cls == IF atoms[k].t = "letters" THEN LetterSet ELSE SpaceSet
              IN \E n \in 0..runLength(cls, str, p) : matchFrom(atoms, k + 1, str, p + n)

\* \b at position p of str: exactly one of the characters around it is a word
\* character.
wordBoundary(str, p) ==
    (p > 1 /\ Ch(str, p - 1) \in WordSet) # (p <= Len(str) /\ Ch(str, p) \in WordSet)

\* re.test(str) for re = /\b<atoms>/i: a search from every position of str.
reTest(atoms, str) ==
    \E p \in 1..(Len(str) + 1) : wordBoundary(str, p) /\ matchFrom(atoms, 1, str, p)

\* command.regexp.test(chars) for a configured regexp /^lit/i.
regexpTest(rx, chars) ==
    /\ Len(chars) >= Len(rx.lit)
    /\ \A i \in 1..Len(rx.lit) : ToLower(Ch(chars, i)) = ToLower(Ch(rx.lit, i))

\* --------------------------------------------------------- Command methods

\* getRE reads cache[chars] and compiles when that is falsy; it never stores
\* what it compiled. An inherited key reads as a truthy value that is returned
\* as it is. syntaxError: new RegExp threw.
getRE(cache, chars) ==
    IF chars \in DOMAIN cache THEN cache[chars]
    ELSE IF chars \in ProtoKeys
         THEN [isRegExp |-> FALSE, atoms |-> <<>>, syntaxError |-> FALSE]
    ELSE LET atoms == compile(fragments(chars))
         IN IF validPattern(atoms)
            THEN [isRegExp |-> TRUE, atoms |-> atoms, syntaxError |-> FALSE]
            ELSE [isRegExp |-> FALSE, atoms |-> <<>>, syntaxError |-> TRUE]

\* The values that stand for an exception thrown by test or isMatch.
Thrown == {"TypeError", "SyntaxError"}

\* test as a bug would have it that forgot the command's own name.
test_aliasesOnly(cmd, cache, chars) ==
    LET re == getRE(cache, chars)
    IN IF re.syntaxError THEN "SyntaxError"
       ELSE IF ~re.isRegExp THEN "TypeError"
       ELSE IF \E i \in 1..Len(cmd.aliases) : reTest(re.atoms, cmd.aliases[i]) THEN "true"
       ELSE IF cmd.regexp.kind # "none" /\ regexpTest(cmd.regexp, chars) THEN "true"
       ELSE "false"

\* Command.test(chars): "true" or "false", or "TypeError" when re.test is not a
\* function (names holds at least the name, so re.test is always called).
test(cmd, cache, chars) ==
    LET re == getRE(cache, chars)
        names == cmd.aliases \o <<cmd.name>>
    IN IF re.syntaxError THEN "SyntaxError"
       ELSE IF ~re.isRegExp THEN "TypeError"
       ELSE IF \E i \in 1..Len(names) : reTest(re.atoms, names[i]) THEN "true"
       ELSE IF cmd.regexp.kind # "none" /\ regexpTest(cmd.regexp, chars) THEN "true"
       ELSE "false"

\* Command.isMatch(chars) on a command whose _matchCache is mc: the cache
\* afterwards and the value returned. `chars in cache` is true of the cache's
\* own keys and of the inherited ones.
isMatch(cmd, mc, rc, chars) ==
    IF chars \in DOMAIN mc THEN [cache |-> mc, value |-> mc[chars]]
    ELSE IF chars \in ProtoKeys THEN [cache |-> mc, value |-> Inherited]
    ELSE LET v == test(cmd, rc, chars)
         IN IF v \in Thrown
            THEN [cache |-> mc, value |-> v]
            ELSE [cache |-> mc @@ (chars :> v), value |-> v]

\* What a conditional takes for true of a value isMatch returned.
truthy(v) == v \in {"true", Inherited}

\* (me.aliases || []).concat(me.name), as a set.
namesOf(cmd) == {cmd.name} \cup {cmd.aliases[i] : i \in 1..Len(cmd.aliases)}

\* --------------------------------------------------------------- histories

NoNav == [kind |-> "none", n |-> 0]

\* The run of consecutive presses of one navigation key that began with
\* nothing highlighted in a list of at least one item.
NavAfter(kind) ==
    IF highlighted = -1 /\ Len(items) >= 1 THEN [kind |-> kind, n |-> 1]
    ELSE IF nav.kind = kind /\ nav.n <= MaxItems + 1 THEN [nav EXCEPT !.n = @ + 1]
    ELSE NoNav

NoChain == [stage |-> 0, idx |-> -1]

\* Stage 1: Enter committed item idx; stage 2: then Down; stage 3: then Enter.
ChainAfter(op, r) ==
    IF op = "enter" /\ chain.stage = 2 THEN [chain EXCEPT !.stage = 3]
    ELSE IF op = "enter" /\ r.fired # <<>> /\ highlighted < Len(items)
         THEN [stage |-> 1, idx |-> highlighted]
    ELSE IF op = "down" /\ chain.stage = 1 THEN [chain EXCEPT !.stage = 2]
    ELSE NoChain

\* The name the histories give a key event: by the handler and the key.
KeydownName(key) ==
    IF key = 38 THEN "up" ELSE IF key = 40 THEN "down" ELSE "keydown"

KeypressName(key) ==
    IF key = 13 THEN "enter" ELSE IF key = 27 THEN "esc" ELSE "keypress"

NoCall == [cmd |-> 0, chars |-> "", value |-> "none"]

\* ----------------------------------------------------------------- actions

\* No key was released since a timeout fired.
NoBurst == "none"

\* QuickBar.mainLabel
mainLabel == "Command:"

\* The last handler was not the one of keydown on the document.
NoKey == [which |-> 0, modifiers |-> {}]

\* The last handler was no success callback of a request.
NoAnswer == [chars |-> Undefined, latest |-> FALSE]

\* new QuickBar(cfg) with one local source and one ajax source: nothing shown,
\* nothing typed, no timeout set, no request made.
QuickBarNew ==
    /\ qbVis = FALSE
    /\ value = ""
    /\ lastChars = Undefined
    /\ timers = {}
    /\ searchTimer = 0
    /\ askingForArg = FALSE
    /\ argHandlers = <<>>
    /\ catalog = Catalog
    /\ inflight = {}
    /\ searched = <<>>
    /\ delivered = <<>>
    /\ answered = NoAnswer
    /\ execd = <<>>
    /\ lastDispatched = Undefined
    /\ burst = NoBurst
    /\ label = mainLabel
    /\ globalKey = NoKey
    /\ fresh = TRUE

\* The state after a handler or method left the widget as r.
Step(r, op) ==
    /\ items' = r.items
    /\ highlighted' = r.highlighted
    /\ vis' = r.vis
    /\ lis' = r.lis
    /\ fired' = r.fired
    /\ pending' = r.pending
    /\ threw' = r.error
    /\ lastOp' = op
    /\ nav' = IF op = "down" THEN NavAfter("next")
              ELSE IF op = "up" THEN NavAfter("prev")
              ELSE NoNav
    /\ chain' = ChainAfter(op, r)
    /\ UNCHANGED <<cmdVars, calls, qbVars>>

Init ==
    /\ \E list \in ListsUpTo(MaxItems) :
          LET r == addItems([items |-> <<>>, highlighted |-> -1, vis |-> FALSE,
                             lis |-> <<>>, fired |-> <<>>, error |-> FALSE,
                             pending |-> <<>>], list)
          IN /\ items = r.items
             /\ lis = r.lis
    /\ highlighted = -1
    /\ vis = FALSE
    /\ fired = <<>>
    /\ pending = <<>>
    /\ threw = FALSE
    /\ lastOp = "new"
    /\ nav = NoNav
    /\ chain = NoChain
    /\ matchCache = [c \in 1..Len(Commands) |-> <<>>]
    /\ reCache = <<>>
    /\ ret = NoCall
    /\ calls = <<>>
    /\ QuickBarNew
    /\ isString = FALSE

AddItem ==
    \E item \in ItemValues :
        /\ Len(items) < MaxItems
        /\ Step(addItem(SL, item), "addItem")

RemoveItem ==
    \E item \in ItemValues : Step(removeItem(SL, item), "removeItem")

Clear == Step(clear(SL), "clear")

Show == Step(show(SL), "show")

Hide == Step(hide(SL), "hide")

Keydown ==
    \E key \in Keys : Step(onKeydown(SL, key), KeydownName(key))

Keypress ==
    \E key \in Keys : Step(onKeypress(SL, key), KeypressName(key))

Mouseover ==
    \E target \in -1..(Len(lis) - 1) : Step(onOver(SL, target), "over")

Click ==
    \E target \in -1..(Len(lis) - 1) : Step(onClick(SL, target), "click")

Search ==
    \E commands \in ListsUpTo(MaxResults) : Step(search(SL, commands), "search")

Next ==
    \/ AddItem
    \/ RemoveItem
    \/ Clear
    \/ Show
    \/ Hide
    \/ Keydown
    \/ Keypress
    \/ Mouseover
    \/ Click
    \/ Search

Spec == Init /\ [][Next]_vars

\* ------------------------------------------- show and hide with a callback

\* The functions a caller passes to show and hide.
Callbacks == {"spy1", "spy2"}

\* The most animations waiting in the effects queue of the ul.
MaxPending == 2

\* selectionList('show', callback)
ShowCallback ==
    \E fn \in Callbacks :
        /\ Len(pending) < MaxPending
        /\ Step(show_callback(SL, fn), "show " \o fn)

\* selectionList('hide', callback)
HideCallback ==
    \E fn \in Callbacks :
        /\ Len(pending) < MaxPending
        /\ Step(hide_callback(SL, fn), "hide " \o fn)

\* The first animation of the effects queue finishes, 100 ms after it began,
\* and calls the callback it was given.
AnimationDone ==
    /\ pending # <<>>
    /\ Step([SL EXCEPT !.pending = Tail(@)], Head(pending))

NextShowHide ==
    \/ ShowCallback
    \/ HideCallback
    \/ AnimationDone

\* An animation that began finishes: the effects queue runs on the page's
\* timers.
SpecShowHide == Init /\ [][NextShowHide]_vars /\ WF_vars(AnimationDone)

\* ---------------------------------------------------- the matcher on its own

\* The commands of a fresh page: nothing cached, the widget not yet built.
InitMatch ==
    /\ items = <<>>
    /\ lis = <<>>
    /\ highlighted = -1
    /\ vis = FALSE
    /\ fired = <<>>
    /\ pending = <<>>
    /\ threw = FALSE
    /\ lastOp = "new"
    /\ nav = NoNav
    /\ chain = NoChain
    /\ matchCache = [c \in 1..Len(Commands) |-> <<>>]
    /\ reCache = <<>>
    /\ ret = NoCall
    /\ calls = <<>>
    /\ QuickBarNew
    /\ isString = FALSE

CacheEntries == {<<c, q>> \in (1..Len(Commands)) \X Queries : q \in DOMAIN matchCache[c]}

\* command.isMatch(chars) for one of the commands and one query.
IsMatch ==
    \E c \in 1..Len(Commands), chars \in Queries :
        LET r == isMatch(Commands[c], matchCache[c], reCache, chars)
        IN /\ chars \in DOMAIN matchCache[c] \/ chars \in ProtoKeys
                \/ Cardinality(CacheEntries) < MaxCacheEntries
           /\ matchCache' = [matchCache EXCEPT ![c] = r.cache]
           /\ ret' = [cmd |-> c, chars |-> chars, value |-> r.value]
           /\ UNCHANGED <<reCache, slVars, calls, qbVars>>

NextMatch == IsMatch

SpecMatch == InitMatch /\ [][NextMatch]_vars

\* ------------------------------------------- the matcher on sample commands

\* Command names that exercise the matching rules: the names of the file
\* header's examples, and names whose words are left early or hold a hyphen.
SampleNames ==
    {"Google Search", "Go To URL", "Go Away", "Gatto", "Gallery Options", "Wi-Fi Setup"}

\* The ways a configuration may write the letters of one name.
Casings == {"asWritten", "lower", "upper"}

recase(str, casing) ==
    IF casing = "lower" THEN toLowerCase(str)
    ELSE IF casing = "upper" THEN toUpperCase(str)
    ELSE str

\* new Command(cfg) for the configured commands and for a command of every
\* sample name in every casing.
SampleCommands ==
    {Commands[c] : c \in 1..Len(Commands)}
        \cup {[name |-> recase(n, k), aliases |-> <<>>, regexp |-> NoRegExp] :
                  n \in SampleNames, k \in Casings}

\* The strings matched against them.
SampleQueries ==
    {"go", "GO", "Go", "gTU", "gtu", "gL", "gT", "se", "oo", "wS", "valueOf", "mail",
     "go 2", "1x"}

\* One call on a freshly constructed command: what test(chars) returns and
\* what isMatch(chars) returns.
callOf(cmd, chars) ==
    [cmd |-> cmd, chars |-> chars,
     test |-> test(cmd, reCache, chars),
     isMatch |-> isMatch(cmd, <<>>, reCache, chars).value]

InitPure ==
    /\ items = <<>>
    /\ lis = <<>>
    /\ highlighted = -1
    /\ vis = FALSE
    /\ fired = <<>>
    /\ pending = <<>>
    /\ threw = FALSE
    /\ lastOp = "new"
    /\ nav = NoNav
    /\ chain = NoChain
    /\ matchCache = [c \in 1..Len(Commands) |-> <<>>]
    /\ reCache = <<>>
    /\ ret = NoCall
    /\ calls = <<>>
    /\ QuickBarNew
    /\ isString = FALSE

\* new Command(cfg).test(chars) and .isMatch(chars) for one sample command and
\* one sample query.
Call ==
    \E cmd \in SampleCommands, chars \in SampleQueries :
        /\ calls = <<>>
        /\ calls' = <<callOf(cmd, chars)>>
        /\ UNCHANGED <<slVars, cmdVars, qbVars>>

\* A second call, of another query on a command of the same configuration.
CallOtherQuery ==
    \E chars \in SampleQueries :
        /\ Len(calls) = 1
        /\ calls' = Append(calls, callOf(calls[1].cmd, chars))
        /\ UNCHANGED <<slVars, cmdVars, qbVars>>

\* A second call, of the same query on another command.
CallOtherCommand ==
    \E cmd \in SampleCommands :
        /\ Len(calls) = 1
        /\ calls' = Append(calls, callOf(cmd, calls[1].chars))
        /\ UNCHANGED <<slVars, cmdVars, qbVars>>

NextPure ==
    \/ Call
    \/ CallOtherQuery
    \/ CallOtherCommand

SpecPure == InitPure /\ [][NextPure]_vars

\* ----------------------------------------------------------------- QuickBar

\* The texts the user leaves in the entry field: blank, two queries with
\* matches, one query that new RegExp rejects.
InputValues == {" ", "go", "l", "g("}

\* The keys the handlers of the entry field tell apart: up and down on
\* keydown, enter and escape on keypress, escape and any other key on keyup.
KeydownKeys == {38, 40}

KeypressKeys == {13, 27}

KeyupKeys == {27, 65}

\* The most ajax requests in flight at one time.
MaxInFlight == 2

\* cfg.sources: the two local sources of the demo page, then one ajax source.
Sources == <<"local", "links", "ajax">>

\* data.commands of the response to a request for chars: no command, or one
\* command configuration named after the query.
RemoteData(chars) == {<<>>, <<"remote:" \o chars>>}

\* str.replace(/\s+$/, '')
RECURSIVE trimRight(_)
trimRight(str) ==
    IF Len(str) >= 1 /\ Ch(str, Len(str)) \in SpaceSet
    THEN trimRight(SubSeq(str, 1, Len(str) - 1))
    ELSE str

\* $.trim(str)
trim(str) == trimRight(trimLeft(str))

\* The quick bar, its selection list and its sources as the record the
\* method operators work on. searched, delivered, answered, execd, dispatched
\* and error
\* collect what one handler does.
QB == [sl |-> SL, qbVis |-> qbVis, value |-> value, lastChars |-> lastChars,
       timers |-> timers, searchTimer |-> searchTimer,
       askingForArg |-> askingForArg, argHandlers |-> argHandlers,
       catalog |-> catalog, matchCache |-> matchCache, inflight |-> inflight,
       searched |-> <<>>, delivered |-> <<>>, answered |-> NoAnswer, execd |-> <<>>,
       dispatched |-> Undefined, error |-> FALSE, me |-> "local",
       label |-> label, globalKey |-> NoKey]

\* me.commands of the local source whose method is running.
me_commands(m) == IF m.me = "links" THEN LinkCatalog ELSE m.catalog

\* Whether the item of the list named command is a Command of a local source.
\* An item that came in an ajax response is the plain object of the response.
isCommand(m, command) ==
    \/ \E c \in 1..Len(m.catalog) : Commands[m.catalog[c]].name = command
    \/ \E c \in 1..Len(LinkCatalog) : Commands[LinkCatalog[c]].name = command

QuickBar_show(m) ==
    IF ~m.qbVis THEN [m EXCEPT !.qbVis = TRUE] ELSE m

\* QuickBar.keystroke: Ctrl+Shift+Space.
keystroke == [which |-> 32, modifiers |-> {"shift", "ctrl"}]

\* The keydown events on the document: the key and the modifier keys that are
\* down. The configured keystroke, the same with a modifier missing or with
\* Alt added, and another key with the configured modifiers.
KeyEvents ==
    { [which |-> 32, modifiers |-> {"shift", "ctrl"}],
      [which |-> 32, modifiers |-> {"shift"}],
      [which |-> 32, modifiers |-> {"ctrl"}],
      [which |-> 32, modifiers |-> {"shift", "ctrl", "alt"}],
      [which |-> 65, modifiers |-> {"shift", "ctrl"}] }

\* onGlobalKey as it would be if it asked for the key alone.
onGlobalKey_keyOnly(m, e) ==
    IF e.which = keystroke.which THEN QuickBar_show(m) ELSE m

\* onGlobalKey(e): $.map(modifiers, ...) collects the configured modifiers
\* whose e[mod + 'Key'] is falsy.
onGlobalKey(m, e) ==
    IF /\ e.which = keystroke.which
       /\ Cardinality({mod \in keystroke.modifiers : mod \notin e.modifiers}) < 1
    THEN QuickBar_show(m)
    ELSE m

stopAskingForArg(m) ==
    IF m.askingForArg
    THEN [m EXCEPT !.label = mainLabel, !.value = "", !.argHandlers = <<>>,
                   !.askingForArg = FALSE]
    ELSE m

QuickBar_hide(m) ==
    IF m.qbVis
    THEN [stopAskingForArg([m EXCEPT !.sl = clear(@)]) EXCEPT !.value = "", !.qbVis = FALSE]
    ELSE m

\* command.exec(arg) for the item of the list named command. A plain object
\* has no exec method, and the call throws. exec throws when it reads
\* actionCfg.type of no action and when Actions.fn calls a fn that is none;
\* Actions.url without a url assigns undefined to location.href.
exec(m, command, argument) ==
    IF isCommand(m, command) /\ action(command) \notin {"none", "fnNoFn"}
    THEN [m EXCEPT !.execd = Append(@, [name |-> command, arg |-> argument])]
    ELSE [m EXCEPT !.error = TRUE]

\* execCommand that leaves the quick bar open.
execCommand_noHide(m, command, argument) == exec(m, command, argument)

\* execCommand(arg) of itemSelected.
execCommand(m, command, argument) ==
    LET m1 == exec(m, command, argument)
    IN IF m1.error THEN m1 ELSE QuickBar_hide(m1)

askForArg(m, command) ==
    [m EXCEPT !.label = command \o (IF argText(command) # "" THEN " - " \o argText(command)
                                    ELSE "") \o ":",
              !.sl = clear(@),
              !.value = argDefault(command),
              !.argHandlers = Append(@, command),
              !.askingForArg = TRUE]

\* itemSelected(e, idx, command): reading command.arg throws when the item is
\* undefined.
itemSelected(m, idx, command) ==
    IF command = Undefined THEN [m EXCEPT !.error = TRUE]
    ELSE IF arg(command) THEN askForArg(m, command)
    ELSE execCommand(m, command, Undefined)

\* SelectionList.selectHighlighted on the entry field: the 'select' event runs
\* itemSelected, and hide() follows unless the handler threw.
selectHighlighted_field(m) ==
    LET idx == m.sl.highlighted
    IN IF idx >= 0
       THEN LET item == At(m.sl.items, idx)
                m1 == itemSelected([m EXCEPT !.sl.fired = Append(@, <<idx, item>>)],
                                   idx, item)
            IN IF m1.error THEN m1 ELSE [m1 EXCEPT !.sl = hide(@)]
       ELSE m

\* The keypress.quickBarArg handlers, in the order they were bound: on Enter
\* each calls its callback with the text of the field.
RECURSIVE runArgHandlers(_, _)
runArgHandlers(m, handlers) ==
    IF handlers = <<>> \/ m.error THEN m
    ELSE runArgHandlers(execCommand(m, Head(handlers), m.value), Tail(handlers))

\* A keypress on the entry field: SelectionList.onKeypress, bound first, then
\* the argument handlers that were bound when the event was dispatched.
field_onKeypress(m, key) ==
    LET handlers == m.argHandlers
        m1 == IF key = 27 THEN [m EXCEPT !.sl = hide(@)]
              ELSE IF key = 13 THEN selectHighlighted_field(m)
              ELSE m
    IN IF key = 13 THEN runArgHandlers(m1, handlers) ELSE m1

clearTimeout(m, timer) == [m EXCEPT !.timers = @ \ {timer}]

\* setTimeout(proxy(me.search, me), me.inputBuffer): the handle is a number no
\* pending timeout has.
setTimeout(m) ==
    LET id == CHOOSE n \in 1..(Cardinality(m.timers) + 1) :
                  n \notin m.timers /\ \A k \in 1..(n - 1) : k \in m.timers
    IN [m EXCEPT !.timers = @ \cup {id}, !.searchTimer = id]

\* onInputKey on which Escape closes the quick bar in argument mode too.
onInputKey_escCloses(m, key) ==
    IF key = 27 THEN QuickBar_hide(m)
    ELSE IF ~m.askingForArg
         THEN setTimeout(IF m.searchTimer # 0 THEN clearTimeout(m, m.searchTimer) ELSE m)
    ELSE m

\* onInputKey without the clearTimeout of the timer set before.
onInputKey_noClear(m, key) ==
    IF key = 27
    THEN IF m.askingForArg THEN stopAskingForArg(m) ELSE QuickBar_hide(m)
    ELSE IF ~m.askingForArg THEN setTimeout(m)
    ELSE m

onInputKey(m, key) ==
    IF key = 27
    THEN IF m.askingForArg THEN stopAskingForArg(m) ELSE QuickBar_hide(m)
    ELSE IF ~m.askingForArg
         THEN setTimeout(IF m.searchTimer # 0 THEN clearTimeout(m, m.searchTimer) ELSE m)
    ELSE m

\* A callback that puts the commands in the place of the items of the list.
callback_replace(m, source, commands) ==
    [m EXCEPT !.sl = handleResult(clear(@), commands),
              !.delivered = Append(@, [source |-> source, commands |-> commands])]

\* QuickBar.handleResult as the callback a source calls.
callback(m, source, commands) ==
    [m EXCEPT !.sl = handleResult(@, commands),
              !.delivered = Append(@, [source |-> source, commands |-> commands])]

\* $.map(me.commands, ...): isMatch on every command, in order.
matchResults(m, chars) ==
    [c \in 1..Len(me_commands(m)) |->
        isMatch(Commands[me_commands(m)[c]], m.matchCache[me_commands(m)[c]], reCache, chars)]

\* The names of the commands, from the c-th on, whose isMatch was truthy.
RECURSIVE matchesFrom(_, _, _)
matchesFrom(m, results, c) ==
    IF c > Len(me_commands(m)) THEN <<>>
    ELSE (IF truthy(results[c].value) THEN <<Commands[me_commands(m)[c]].name>> ELSE <<>>)
            \o matchesFrom(m, results, c + 1)

\* The match caches after the calls of isMatch.
cachesAfter(m, results) ==
    [k \in DOMAIN m.matchCache |->
        IF \E c \in 1..Len(me_commands(m)) : me_commands(m)[c] = k
        THEN results[CHOOSE c \in 1..Len(me_commands(m)) : me_commands(m)[c] = k].cache
        ELSE m.matchCache[k]]

\* LocalCommandSource.search that calls back whatever it found.
LocalCommandSource_search_always(m, chars) ==
    LET results == matchResults(m, chars)
    IN callback([m EXCEPT !.matchCache = cachesAfter(m, results)],
                m.me, matchesFrom(m, results, 1))

LocalCommandSource_search(m, chars) ==
    LET results == matchResults(m, chars)
        matches == matchesFrom(m, results, 1)
        m1 == [m EXCEPT !.matchCache = cachesAfter(m, results)]
    IN IF \E c \in 1..Len(me_commands(m)) : results[c].value \in Thrown
       THEN [m1 EXCEPT !.error = TRUE]
       ELSE IF Len(matches) > 0 THEN callback(m1, m.me, matches)
       ELSE m1

\* AjaxCommandSource.search: $.isString(ajaxData) throws where jQuery has no
\* isString; else the request is made and becomes me._xhr.
AjaxCommandSource_search(m, chars) ==
    IF ~isString THEN [m EXCEPT !.error = TRUE]
    ELSE [m EXCEPT !.inflight = {[r EXCEPT !.latest = FALSE] : r \in @}
                                   \cup {[chars |-> chars, latest |-> TRUE]}]

\* The success callback that uses every response.
success_noCheck(m, req, data) == callback(m, "ajax", data)

\* success(data, status, xhr) of the request req, with data.commands = data.
success(m, req, data) ==
    IF req.latest THEN callback(m, "ajax", data) ELSE m

\* source.search(chars, proxy(me.handleResult, me))
source_search(m, source, chars) ==
    LET m1 == [m EXCEPT !.searched = Append(@, [source |-> source, chars |-> chars])]
    IN IF source = "ajax" THEN AjaxCommandSource_search(m1, chars)
       ELSE LocalCommandSource_search([m1 EXCEPT !.me = source], chars)

\* $.each(me.sources, ...): a throwing source ends the loop.
RECURSIVE eachSource(_, _, _)
eachSource(m, sources, chars) ==
    IF sources = <<>> \/ m.error THEN m
    ELSE eachSource(source_search(m, Head(sources), chars), Tail(sources), chars)

\* QuickBar.search that searches the sources for the empty string too.
QuickBar_search_noEmptyCheck(m) ==
    LET chars == trim(m.value)
        m1 == IF chars # m.lastChars
              THEN eachSource([m EXCEPT !.sl = clear(@), !.dispatched = chars],
                              Sources, chars)
              ELSE m
    IN IF m1.error THEN m1 ELSE [m1 EXCEPT !.lastChars = chars]

\* QuickBar.search that does not compare with _lastChars.
QuickBar_search_always(m) ==
    LET chars == trim(m.value)
        m1 == IF Len(chars) < 1 THEN [m EXCEPT !.sl = hide(@)]
              ELSE eachSource([m EXCEPT !.sl = clear(@), !.dispatched = chars],
                              Sources, chars)
    IN IF m1.error THEN m1 ELSE [m1 EXCEPT !.lastChars = chars]

\* QuickBar.search(): a throw leaves _lastChars as it was.
QuickBar_search(m) ==
    LET chars == trim(m.value)
        m1 == IF Len(chars) < 1 THEN [m EXCEPT !.sl = hide(@)]
              ELSE IF chars # m.lastChars
                   THEN eachSource([m EXCEPT !.sl = clear(@), !.dispatched = chars],
                                   Sources, chars)
              ELSE m
    IN IF m1.error THEN m1 ELSE [m1 EXCEPT !.lastChars = chars]

\* The burst of key releases, after the handler op. "typed": the text was
\* just changed from 'go' to 'l' while a timeout was pending; "superseded":
\* the next handler was a key release that set a new timeout in place of that
\* one; "settled": the next handler was the new timeout.
BurstAfter(m, op) ==
    IF op = "edit"
    THEN (IF timers # {} /\ trim(value) = "go" /\ trim(m.value) = "l"
          THEN "typed" ELSE NoBurst)
    ELSE IF op = "keyup"
         THEN (IF burst = "typed" /\ timers # {} /\ m.timers # {}
               THEN "superseded" ELSE NoBurst)
    ELSE IF op = "timer" /\ burst = "superseded" THEN "settled"
    ELSE NoBurst

\* Whether, after the handler op, the quick bar is closed or was just opened,
\* or waits for an argument or Escape just ended the argument mode, or no
\* timeout has since run search on a field that held a text.
FreshAfter(m, op) ==
    IF ~m.qbVis \/ ~qbVis THEN TRUE
    ELSE IF m.askingForArg \/ askingForArg THEN TRUE
    ELSE IF op = "timer" /\ trim(value) # "" THEN FALSE
    ELSE fresh

\* The handlers the history tells apart; every other one is "key".
NamedOps == {"timer", "success", "error", "enter", "blur", "keyupEsc"}

\* The state after a handler left the quick bar as m.
QuickBarStep(m, op) ==
    /\ items' = m.sl.items
    /\ highlighted' = m.sl.highlighted
    /\ vis' = m.sl.vis
    /\ lis' = m.sl.lis
    /\ fired' = m.sl.fired
    /\ threw' = (m.error \/ m.sl.error)
    /\ lastOp' = (IF op \in NamedOps THEN op ELSE "key")
    /\ matchCache' = m.matchCache
    /\ qbVis' = m.qbVis
    /\ value' = m.value
    /\ lastChars' = m.lastChars
    /\ timers' = m.timers
    /\ searchTimer' = m.searchTimer
    /\ askingForArg' = m.askingForArg
    /\ argHandlers' = m.argHandlers
    /\ catalog' = m.catalog
    /\ inflight' = m.inflight
    /\ searched' = m.searched
    /\ delivered' = m.delivered
    /\ answered' = m.answered
    /\ execd' = m.execd
    /\ lastDispatched' = IF m.dispatched # Undefined THEN m.dispatched ELSE lastDispatched
    /\ burst' = BurstAfter(m, op)
    /\ label' = m.label
    /\ globalKey' = m.globalKey
    /\ fresh' = FreshAfter(m, op)
    /\ pending' = m.sl.pending
    /\ UNCHANGED <<nav, chain, reCache, ret, calls, isString>>

\* $.quickBar(cfg): the page's jQuery has a member isString, or has none.
InitQuickBar ==
    /\ items = <<>>
    /\ lis = <<>>
    /\ highlighted = -1
    /\ vis = FALSE
    /\ fired = <<>>
    /\ pending = <<>>
    /\ threw = FALSE
    /\ lastOp = "new"
    /\ nav = NoNav
    /\ chain = NoChain
    /\ matchCache = [c \in 1..Len(Commands) |-> <<>>]
    /\ reCache = <<>>
    /\ ret = NoCall
    /\ calls = <<>>
    /\ QuickBarNew
    /\ isString \in BOOLEAN

\* A keydown on the document while the quick bar is hidden.
GlobalKey ==
    \E e \in KeyEvents :
        /\ ~qbVis
        /\ QuickBarStep(onGlobalKey([QB EXCEPT !.globalKey = e], e), "globalKey")

\* The entry field loses the focus.
InputBlur ==
    /\ qbVis
    /\ QuickBarStep(QuickBar_hide(QB), "blur")

\* The user changes the text of the entry field.
InputEdit ==
    \E v \in InputValues :
        /\ qbVis
        /\ v # value
        /\ QuickBarStep([QB EXCEPT !.value = v], "edit")

InputKeydown ==
    \E key \in KeydownKeys :
        /\ qbVis
        /\ QuickBarStep([QB EXCEPT !.sl = onKeydown(@, key)], KeydownName(key))

InputKeypress ==
    \E key \in KeypressKeys :
        /\ qbVis
        /\ QuickBarStep(field_onKeypress(QB, key), KeypressName(key))

InputKeyup ==
    \E key \in KeyupKeys :
        /\ qbVis
        /\ QuickBarStep(onInputKey(QB, key), IF key = 27 THEN "keyupEsc" ELSE "keyup")

\* A pending timeout fires and runs QuickBar.search.
TimerFire ==
    \E timer \in timers :
        LET m == QuickBar_search(clearTimeout(QB, timer))
        IN /\ Cardinality(m.inflight) <= MaxInFlight
           /\ QuickBarStep(m, "timer")

\* The response to a request arrives.
AjaxSuccess ==
    \E req \in inflight :
        \E data \in RemoteData(req.chars) :
            QuickBarStep(success([QB EXCEPT !.inflight = @ \ {req}, !.answered = req],
                                 req, data), "success")

\* A request fails: no handler is configured for that.
AjaxError ==
    \E req \in inflight :
        QuickBarStep([QB EXCEPT !.inflight = @ \ {req}], "error")

NextQuickBar ==
    \/ GlobalKey
    \/ InputBlur
    \/ InputEdit
    \/ InputKeydown
    \/ InputKeypress
    \/ InputKeyup
    \/ TimerFire
    \/ AjaxSuccess
    \/ AjaxError

SpecQuickBar == InitQuickBar /\ [][NextQuickBar]_vars

\* ------------------------------------------------- building a local source

\* The most commands a source is built from.
MaxCommands == 2

\* The queries the source built is searched for.
CatalogQueries == {"go", "no"}

\* addCommand(commandCfg): new Command(commandCfg) copies the configuration
\* onto the instance, whatever it holds, and the instance is pushed.
addCommand(m, commandCfg) == [m EXCEPT !.catalog = Append(@, commandCfg)]

\* new LocalCommandSource(cfg) before addCommands: no command. Nothing else
\* exists yet.
InitCatalog ==
    /\ items = <<>>
    /\ lis = <<>>
    /\ highlighted = -1
    /\ vis = FALSE
    /\ fired = <<>>
    /\ pending = <<>>
    /\ threw = FALSE
    /\ lastOp = "new"
    /\ nav = NoNav
    /\ chain = NoChain
    /\ matchCache = [c \in 1..Len(Commands) |-> <<>>]
    /\ reCache = <<>>
    /\ ret = NoCall
    /\ calls = <<>>
    /\ qbVis = FALSE
    /\ value = ""
    /\ lastChars = Undefined
    /\ timers = {}
    /\ searchTimer = 0
    /\ askingForArg = FALSE
    /\ argHandlers = <<>>
    /\ catalog = <<>>
    /\ inflight = {}
    /\ isString = FALSE
    /\ searched = <<>>
    /\ delivered = <<>>
    /\ answered = NoAnswer
    /\ execd = <<>>
    /\ lastDispatched = Undefined
    /\ burst = NoBurst
    /\ label = mainLabel
    /\ globalKey = NoKey
    /\ fresh = TRUE

\* addCommands(cfg.commands), one configuration at a time; the configurations
\* are distinct.
AddCommand ==
    \E commandCfg \in 1..Len(Commands) :
        /\ Len(catalog) < MaxCommands
        /\ \A i \in 1..Len(catalog) : catalog[i] # commandCfg
        /\ QuickBarStep(addCommand(QB, commandCfg), "addCommand")

\* The list is cleared and the source built so far is searched, as
\* QuickBar.search does: source.search(chars, proxy(me.handleResult, me)).
SourceSearch ==
    \E chars \in CatalogQueries :
        QuickBarStep(source_search([QB EXCEPT !.sl = clear(@)], "local", chars), "search")

\* command.exec() on a command the search put in the list.
Exec ==
    \E j \in 1..Len(items) :
        QuickBarStep(exec(QB, items[j], Undefined), "exec")

NextCatalog ==
    \/ AddCommand
    \/ SourceSearch
    \/ Exec

SpecCatalog == InitCatalog /\ [][NextCatalog]_vars

\* ------------------------------------------------------------------ typing

TypeOK ==
    /\ items \in ListsUpTo(MaxItems)
    /\ highlighted \in -1..MaxItems
    /\ vis \in BOOLEAN
    /\ Len(lis) = Len(items)
    /\ threw \in BOOLEAN
    /\ ret.value \in {"none", "true", "false", Inherited} \cup Thrown

\* ------------------------------------------------------------------ claims

\* C1: in every reachable state the highlighted index h satisfies
\* -1 <= h < items.length.
C1_HighlightInRange ==
    -1 <= highlighted /\ highlighted < Len(items)

C3_WrapAround ==
    /\ (nav.kind = "next" /\ nav.n = Len(items) + 1) =>
          (highlighted = 0 /\ lis[1])
    /\ (nav.kind = "prev" /\ nav.n = Len(items) + 1) =>
          (highlighted = Len(items) - 1 /\ lis[Len(items)])

\* C4: after the items were replaced wholesale (cleared and repopulated by a
\* dispatched search, or cleared) the highlighted index is -1.
C4_ReplaceResetsHighlight ==
    lastOp \in {"search", "clear"} => highlighted = -1

\* C5: Enter while nothing is highlighted does not throw, fires no 'select'
\* event and leaves items, highlighted index, rendering and visibility unchanged.
C5_EnterWithoutHighlight ==
    [][(lastOp' = "enter" /\ highlighted = -1) =>
          (/\ fired' = <<>>
           /\ ~threw'
           /\ UNCHANGED <<items, highlighted, vis, lis>>)]_vars

\* Enter was pressed on a visible, populated dropdown with nothing highlighted.
C5_Witness ==
    /\ lastOp = "enter"
    /\ fired = <<>>
    /\ highlighted = -1
    /\ vis
    /\ Len(items) >= 2

\* C6: Enter pressed while the dropdown is not visible fires no 'select' event.
C6_NoSelectWhileHidden ==
    [][(lastOp' = "enter" /\ ~vis) => fired' = <<>>]_vars

\* C7: Enter with index i >= 0 highlighted fires exactly one 'select' event,
\* with payload (i, items[i]), the item a member of the list, and then the
\* dropdown is hidden.
C7_CommitPayload ==
    [][(lastOp' = "enter" /\ highlighted >= 0) =>
          (/\ Len(fired') = 1
           /\ fired'[1][1] = highlighted
           /\ highlighted < Len(items)
           /\ fired'[1][2] = items[highlighted + 1]
           /\ ~vis')]_vars

\* C8: after Enter committed item i of a list of more than i+1 items, one Down
\* press and a second Enter fire 'select' with index i+1 and item i+1.
C8_CommitKeepsPosition ==
    (chain.stage = 3 /\ Len(items) > chain.idx + 1) =>
        fired = << <<chain.idx + 1, items[chain.idx + 2]>> >>

\* C9: isMatch(Q) returns a boolean, equal to what the uncached test(Q)
\* returns, on the first call and on every later one, whatever was matched
\* before.
C9_MemoizationTransparent ==
    ret.value # "none" =>
        /\ ret.value \in {"true", "false"}
        /\ ret.value = test(Commands[ret.cmd], reCache, ret.chars)

\* C10 as stated: the empty query matches every command.
C10_EmptyMatchesAll ==
    (ret.value # "none" /\ ret.chars = "") => ret.value = "true"

\* Whether str holds a word character (a letter, a digit or an underscore).
HasWordChar(str) == \E i \in 1..Len(str) : Ch(str, i) \in WordSet

\* C10, amended: the empty query matches exactly the commands whose name or
\* one of whose aliases holds a word character, and those whose configured
\* regexp matches the empty string.
C10_EmptyMatchesNamed ==
    (ret.value # "none" /\ ret.chars = "") =>
        LET cmd == Commands[ret.cmd]
            named == \/ HasWordChar(cmd.name)
                     \/ \E i \in 1..Len(cmd.aliases) : HasWordChar(cmd.aliases[i])
            byRegExp == cmd.regexp.kind = "prefix" /\ cmd.regexp.lit = ""
        IN ret.value = IF named \/ byRegExp THEN "true" ELSE "false"

\* The empty query was matched against a command known by its name alone, and
\* matched it.
C10_Witness ==
    /\ ret.chars = ""
    /\ ret.value = "true"
    /\ ret.cmd \in 1..Len(Commands)
    /\ Commands[ret.cmd].aliases = <<>>
    /\ Commands[ret.cmd].regexp = NoRegExp

sameButCase(c, d) ==
    /\ toLowerCase(c.name) = toLowerCase(d.name)
    /\ Len(c.aliases) = Len(d.aliases)
    /\ \A i \in 1..Len(c.aliases) : toLowerCase(c.aliases[i]) = toLowerCase(d.aliases[i])
    /\ c.regexp = d.regexp

RECURSIVE nonSpaceRun(_, _)
nonSpaceRun(str, p) ==
    IF p <= Len(str) /\ Ch(str, p) \notin SpaceSet THEN 1 + nonSpaceRun(str, p + 1) ELSE 0

\* The whitespace-separated words of str, in order.
RECURSIVE wordsOf(_)
wordsOf(str) ==
    LET s == trimLeft(str)
        n == nonSpaceRun(s, 1)
    IN IF Len(s) = 0 THEN <<>>
       ELSE <<SubSeq(s, 1, n)>> \o wordsOf(SubSeq(s, n + 1, Len(s)))

\* Whether word begins with frag, ignoring case.
beginsWith(word, frag) ==
    /\ Len(word) >= Len(frag)
    /\ \A i \in 1..Len(frag) : ToLower(Ch(word, i)) = ToLower(Ch(frag, i))

\* Whether name holds Len(frags) consecutive words, the j-th of them beginning
\* with the j-th fragment.
consecutiveWords(name, frags) ==
    LET w == wordsOf(name)
        k == Len(frags)
    IN \E s \in 1..(Len(w) - k + 1) : \A j \in 1..k : beginsWith(w[s + j - 1], frags[j])

\* C12: a query that segments into fragments f1..fk matches a command whose
\* name or alias holds k consecutive whitespace-separated words w1..wk, each
\* wi beginning with fi ignoring case; "gTU" does not match "Go Away".
C12_CamelWords ==
    \A i \in 1..Len(calls) :
        LET c == calls[i]
            f == fragments(c.chars)
        IN /\ (f # <<>> /\ \E n \in namesOf(c.cmd) : consecutiveWords(n, f))
                 => truthy(c.isMatch)
           /\ (c.chars = "gTU" /\ namesOf(c.cmd) = {"Go Away"} /\ c.cmd.regexp = NoRegExp)
                 => ~truthy(c.isMatch)

\* Whether a word starts at position p of str: a word character that no word
\* character precedes.
isWordStart(str, p) ==
    /\ p <= Len(str)
    /\ Ch(str, p) \in WordSet
    /\ (p = 1 \/ Ch(str, p - 1) \notin WordSet)

\* Whether the fragments are found, in order, each at the start of a word of
\* its own, from position from on.
RECURSIVE atSeparateWords(_, _, _)
atSeparateWords(str, frags, from) ==
    \/ frags = <<>>
    \/ \E p \in from..Len(str) :
          /\ isWordStart(str, p)
          /\ beginsWith(SubSeq(str, p, Len(str)), Head(frags))
          /\ atSeparateWords(str, Tail(frags), p + 1)

\* C13: a command without a custom pattern is matched only when each
\* camel-cased group of the query is found at the beginning of a separate
\* word of its name or of an alias: "gL" does not match "Google Search" and
\* "gT" does not match "Gatto".
C13_SeparateWords ==
    \A i \in 1..Len(calls) :
        LET c == calls[i]
        IN (c.cmd.regexp = NoRegExp /\ c.isMatch = "true")
              => \E n \in namesOf(c.cmd) : atSeparateWords(n, fragments(c.chars), 1)

\* The rule of C14 for one command and one query.
matchRule(cmd, chars) ==
    \/ \E n \in namesOf(cmd) : reTest(compile(fragments(chars)), n)
    \/ cmd.regexp.kind # "none" /\ regexpTest(cmd.regexp, chars)

\* C14: a command matches a query exactly when the pattern compiled from the
\* query matches its name or one of its aliases, or its custom pattern matches
\* the raw query; "se" matches "Google Search" at the start of its second
\* word, and a match that would start inside a word does not count.
C14_MatchRule ==
    \A i \in 1..Len(calls) :
        LET c == calls[i]
        IN /\ truthy(c.isMatch) = matchRule(c.cmd, c.chars)
           /\ (c.chars = "se" /\ c.cmd.name = "Google Search") => truthy(c.isMatch)
           /\ (c.chars = "oo" /\ c.cmd.name = "Google Search") => ~truthy(c.isMatch)

\* The local sources, and the catalog of each.
LocalSources == {"local", "links"}

catalogOf(source) == IF source = "links" THEN LinkCatalog ELSE catalog

\* The places in the catalog cat of the commands isMatch(chars) holds for.
matching(cat, chars) ==
    {c \in 1..Len(cat) :
        truthy(isMatch(Commands[cat[c]], matchCache[cat[c]], reCache, chars).value)}

\* Whether list names exactly the commands at the places in set, in the order
\* of the catalog cat.
inCatalogOrder(cat, list, set) ==
    /\ Len(list) = Cardinality(set)
    /\ \A i \in 1..Len(list) :
          \E c \in set : /\ Cardinality({d \in set : d < c}) = i - 1
                         /\ list[i] = Commands[cat[c]].name

\* The callback calls one source made in the handler that just ran.
callsOf(source, calls_) ==
    {j \in 1..Len(calls_) : calls_[j].source = source}

C16_CompletionReported ==
    [][\A i \in 1..Len(searched') :
          (/\ searched'[i].source \in LocalSources
           /\ validPattern(compile(fragments(searched'[i].chars)))) =>
             callsOf(searched'[i].source, delivered') # {}]_vars

\* C17: only the response to the most recently issued request of the ajax
\* source reaches the callback: the response to a request that a later search
\* superseded changes nothing, whether the later request is still in flight
\* or was answered, and what is delivered is the answer to the last request
\* the source made.
C17_Supersession ==
    [][/\ (answered'.chars # Undefined /\ ~answered'.latest) =>
              (delivered' = <<>> /\ UNCHANGED <<items, lis, vis, highlighted>>)
       /\ \A j \in callsOf("ajax", delivered') :
              /\ answered'.latest
              /\ \A r \in inflight : r.latest => r = answered'
              /\ \A k \in 1..Len(delivered'[j].commands) :
                     delivered'[j].commands[k] = "remote:" \o answered'.chars]_vars

\* The response to a superseded request arrived, and was dropped, while the
\* request of another, later query was still in flight.
C17_Witness ==
    /\ lastOp = "success"
    /\ answered.chars # Undefined
    /\ ~answered.latest
    /\ delivered = <<>>
    /\ \E r \in inflight : r.latest /\ r.chars # answered.chars

\* C18: in a burst of key releases, each before the timeout of the one before
\* fired, every release cancels the timeout before it: the sources are
\* searched only when a timeout fires, the timeout that fires is the one the
\* last release set, no other is left to fire, and the query is the trimmed
\* text of the field at that time, once for each source.
C18_Debounce ==
    [][/\ searched' # <<>> =>
              /\ lastOp' = "timer"
              /\ \A i \in 1..Len(searched') : searched'[i].chars = trim(value)
              /\ \A src \in LocalSources \cup {"ajax"} :
                     Cardinality(callsOf(src, searched')) <= 1
       /\ lastOp' = "timer" => (timers = {searchTimer} /\ timers' = {})]_vars

\* The text changed while a timeout was pending, a key release replaced that
\* timeout, and the one search of the burst used the final text.
C18_Witness ==
    /\ lastOp = "timer"
    /\ burst = "settled"
    /\ Len(searched) >= 1
    /\ searched[1].chars = trim(value)
    /\ lastDispatched = trim(value)

\* C19: when a timeout fires and the trimmed text of the field is empty, no
\* source is searched and the dropdown is hidden afterwards.
C19_EmptyInput ==
    [][(lastOp' = "timer" /\ trim(value) = "") => (searched' = <<>> /\ ~vis')]_vars

\* A timeout fired on a field that held only whitespace, with the list
\* populated: nothing was searched and the dropdown is hidden.
C19_Witness ==
    /\ lastOp = "timer"
    /\ value = " "
    /\ qbVis
    /\ items # <<>>
    /\ searched = <<>>
    /\ ~vis

\* C20 as stated: when a timeout fires and the trimmed text equals the query
\* of the last search handed to the sources, no source is searched and items
\* and highlight are unchanged.
C20_UnchangedQuery ==
    [][(lastOp' = "timer" /\ trim(value) = lastDispatched) =>
          (searched' = <<>> /\ UNCHANGED <<items, highlighted>>)]_vars

\* C20, amended: when a timeout fires and the trimmed text is not empty and
\* equals the text the last completed run of search recorded (_lastChars, which
\* a run on an empty field sets to the empty string), no source is searched
\* and items, highlight and visibility are unchanged.
C20_UnchangedInput ==
    [][(lastOp' = "timer" /\ trim(value) # "" /\ trim(value) = lastChars) =>
          (searched' = <<>> /\ UNCHANGED <<items, lis, highlighted, vis>>)]_vars

\* A timeout that a navigation key release had set fired on an unchanged
\* text: the list was not rebuilt and the highlight stayed.
C20_Witness ==
    /\ lastOp = "timer"
    /\ trim(value) # ""
    /\ trim(value) = lastChars
    /\ searched = <<>>
    /\ Len(items) >= 2
    /\ highlighted >= 0

\* Whether the handler that just ran was a keydown on the document, and
\* whether it opened the quick bar.
globalKeyHandled == globalKey' # NoKey

opened == ~qbVis /\ qbVis'

\* C21 as stated: a keydown on the document opens the quick bar if and only if
\* its key is the configured key and the modifier keys that are down are
\* exactly the configured ones.
C21_ExactModifiers ==
    [][globalKeyHandled =>
          (opened <=> (/\ globalKey'.which = keystroke.which
                       /\ globalKey'.modifiers = keystroke.modifiers))]_vars

\* C21, amended: a keydown on the document opens the hidden quick bar if and
\* only if its key is the configured key and every configured modifier key is
\* down; further modifier keys do not matter.
C21_RequiredModifiers ==
    [][globalKeyHandled =>
          (opened <=> (/\ globalKey'.which = keystroke.which
                       /\ keystroke.modifiers \subseteq globalKey'.modifiers))]_vars

\* Ctrl+Shift+Alt+Space opened the quick bar.
C21_Witness ==
    /\ globalKey = [which |-> 32, modifiers |-> {"shift", "ctrl", "alt"}]
    /\ qbVis

\* The text askForArg puts in the label for a command.
labelOf(command) ==
    IF command = "Go To URL" THEN "Go To URL - Location:"
    ELSE IF command = "New Message" THEN "New Message - To:"
    ELSE command \o ":"

\* The commands the handler that just ran committed, in order: the items the
\* 'select' events carried.
committed == [i \in 1..Len(fired') |-> fired'[i][2]]

\* C22: committing a command that takes an argument executes nothing; the
\* quick bar is then in argument mode, the field holds the command's
\* argDefault (nothing when it has none) and the label names the command. An
\* Enter in argument mode executes the command that was committed, once, with
\* the text the field held, and leaves the quick bar closed.
C22_ArgumentStep ==
    [][/\ \A i \in 1..Len(committed) :
              (isCommand(QB, committed[i]) /\ arg(committed[i])) =>
                 /\ execd' = <<>>
                 /\ askingForArg'
                 /\ qbVis'
                 /\ value' = argDefault(committed[i])
                 /\ label' = labelOf(committed[i])
       /\ (askingForArg /\ lastOp' = "enter") =>
              /\ argHandlers # <<>>
              /\ execd' = <<[name |-> argHandlers[Len(argHandlers)], arg |-> value]>>
              /\ ~qbVis'
              /\ ~askingForArg']_vars

\* The executions of command by the handler that just ran.
execsOf(command) == {j \in 1..Len(execd') : execd'[j].name = command}

C24_EscapeCancelsArgument ==
    [][/\ (lastOp' = "keyupEsc" /\ askingForArg) =>
              /\ execd' = <<>>
              /\ ~askingForArg'
              /\ argHandlers' = <<>>
              /\ label' = mainLabel
              /\ value' = ""
              /\ qbVis'
       /\ (lastOp' = "keyupEsc" /\ ~askingForArg) =>
              /\ execd' = <<>>
              /\ ~qbVis'
       /\ (lastOp' = "enter" /\ ~askingForArg) =>
              \A j \in 1..Len(execd') :
                 \E i \in 1..Len(committed) : committed[i] = execd'[j].name]_vars

\* Escape was released in argument mode: the quick bar is open, not asking,
\* with the main label and an empty field.
C24_Witness ==
    /\ lastOp = "keyupEsc"
    /\ qbVis
    /\ ~askingForArg
    /\ argHandlers = <<>>
    /\ label = mainLabel
    /\ value = ""
    /\ lastChars = "go"

\* Whether the handler that just ran closed the quick bar.
closed == qbVis /\ ~qbVis'

\* C25: after the quick bar closes, by the release of Escape, by the loss of
\* the focus or by the execution of a command, the field is empty, the list
\* has no items and nothing highlighted, argument mode is off and the label
\* is the main label.
C25_CleanSlate ==
    [][closed =>
          /\ value' = ""
          /\ items' = <<>>
          /\ highlighted' = -1
          /\ ~askingForArg'
          /\ argHandlers' = <<>>
          /\ label' = mainLabel]_vars

\* C26: while the quick bar is closed, a timeout that fires and a response
\* that arrives search no source, add no item to the list, do not show the
\* dropdown and do not throw.
C26_ClosedIsQuiet ==
    [][(~qbVis /\ lastOp' \in {"timer", "success", "error"}) =>
          /\ searched' = <<>>
          /\ items' = items
          /\ (vis' => vis)
          /\ ~threw']_vars

\* The commands of all the deliveries from the k-th on, in order.
RECURSIVE deliveredFrom(_, _)
deliveredFrom(calls_, k) ==
    IF k > Len(calls_) THEN <<>>
    ELSE calls_[k].commands \o deliveredFrom(calls_, k + 1)

\* The names of the commands of the catalog cat that match chars, in the
\* order of the catalog.
filtered(cat, chars) ==
    LET Matches(c) == truthy(isMatch(Commands[c], matchCache[c], reCache, chars).value)
        kept == SelectSeq(cat, Matches)
    IN [i \in 1..Len(kept) |-> Commands[kept[i]].name]

\* C27: a delivery of results appends its commands to the list, in the order
\* delivered, and leaves the items before them as they were; right after a
\* search was dispatched the list is the first local source's catalog
\* filtered by the query, followed by the second's.
C27_AppendMerge ==
    [][/\ lastOp' = "success" => items' = items \o deliveredFrom(delivered', 1)
       /\ (lastOp' = "timer" /\ searched' # <<>>) =>
              /\ items' = deliveredFrom(delivered', 1)
              /\ items' = filtered(catalog, trim(value)) \o filtered(LinkCatalog, trim(value))
       /\ Len(lis') = Len(items')]_vars

\* The two local sources delivered one command each for 'l', and the ajax
\* source's response added a third behind them.
C27_Witness ==
    /\ lastOp = "success"
    /\ delivered = << [source |-> "ajax", commands |-> <<"remote:l">>] >>
    /\ items = <<"Logout", "Link One", "remote:l">>

\* Whether the command named name has an action exec can carry out.
wellFormed(name) == action(name) \in {"fn", "url"}

\* C28: a command whose action is missing, or is of the url kind without a
\* url, or of the fn kind without a function, is rejected when it is
\* constructed: no catalog holds it, no search delivers it, no exec runs on
\* it.
C28_MalformedRejected ==
    /\ \A i \in 1..Len(catalog) : wellFormed(Commands[catalog[i]].name)
    /\ \A j \in 1..Len(delivered) :
          \A k \in 1..Len(delivered[j].commands) : wellFormed(delivered[j].commands[k])
    /\ \A j \in 1..Len(execd) : wellFormed(execd[j].name)
    /\ ~threw

\* The sources the handler has called search on.
sourcesSearched == {searched[i].source : i \in 1..Len(searched)}

\* C29: whatever the text of the entry field, characters that are special in
\* a regular expression included, a search that is dispatched raises no
\* error and searches every source.
C29_NoQueryBreaks ==
    [][(lastOp' = "timer" /\ searched' # <<>>) =>
           /\ ~threw'
           /\ \A i \in 1..Len(Sources) : Sources[i] \in sourcesSearched']_vars

\* C30: every call of show with a callback, and every call of hide with a
\* callback, is eventually followed by an invocation of that callback,
\* whatever the visibility of the dropdown at the call.
C30_CallbackInvoked ==
    \A fn \in Callbacks :
        (lastOp \in {"show " \o fn, "hide " \o fn}) ~> (lastOp = fn)

\* C31: at most one timeout of the search is pending, and it is the one the
\* last key release set: a timeout a later release superseded cannot fire.
C31_OneTimer ==
    /\ Cardinality(timers) <= 1
    /\ timers \subseteq {searchTimer}

\* A key release has just replaced a pending timeout by a new one.
C31_Witness ==
    /\ burst = "superseded"
    /\ timers = {searchTimer}

\* C32: a press of Down or Up that lands on an index i >= 0 leaves the
\* dropdown visible, and so in every state a highlighted index >= 0 means
\* that the dropdown is visible.
C32_HighlightedIsVisible ==
    [][/\ (lastOp' \in {"down", "up"} /\ highlighted' >= 0) => vis'
       /\ highlighted' >= 0 => vis']_vars

\* How many characters the fragments of a query hold together.
RECURSIVE fragChars(_)
fragChars(frags) ==
    IF frags = <<>> THEN 0 ELSE Len(Head(frags)) + fragChars(Tail(frags))

\* How many characters of str are no whitespace.
nonSpace(str) == Cardinality({i \in 1..Len(str) : Ch(str, i) \notin SpaceSet})

\* The characters of the name and the aliases of cmd, in lower case.
lettersOf(cmd) ==
    {ToLower(c) : c \in CharsOf(cmd.name)}
        \cup UNION {{ToLower(c) : c \in CharsOf(cmd.aliases[a])} : a \in 1..Len(cmd.aliases)}

\* C33: the fragments of getRE take up every character of the query that is
\* no whitespace, so a command that is configured with no regexp matches
\* only a query whose every such character stands in its name or aliases.
C33_WholeQueryConsumed ==
    \A i \in 1..Len(calls) :
        /\ fragChars(fragments(calls[i].chars)) = nonSpace(calls[i].chars)
        /\ (calls[i].test = "true" /\ calls[i].cmd.regexp = NoRegExp) =>
               \A k \in 1..Len(calls[i].chars) :
                   \/ Ch(calls[i].chars, k) \in SpaceSet
                   \/ ToLower(Ch(calls[i].chars, k)) \in lettersOf(calls[i].cmd)

\* C34: the first timeout that finds a text in the field after the quick bar
\* was opened, or after Escape ended the argument mode, hands that text to
\* the sources, and the list is what they delivered, also when the text is
\* the one searched for last.
C34_FreshSession ==
    [][(lastOp' = "timer" /\ fresh /\ qbVis /\ ~askingForArg /\ trim(value) # "") =>
           /\ searched' # <<>>
           /\ \A i \in 1..Len(searched') : searched'[i].chars = trim(value)
           /\ items' = deliveredFrom(delivered', 1)]_vars

\* C35: while the quick bar waits for an argument no source is searched and
\* the list stays empty, also when a timeout set before the commit fires in
\* the argument mode.
C35_NoSearchInArgMode ==
    [][askingForArg' => (searched' = <<>> /\ items' = <<>>)]_vars

\* The names of the commands the sources deliver for the query chars.
resultsFor(chars) ==
    LET local == filtered(catalog, chars) \o filtered(LinkCatalog, chars)
    IN {local[i] : i \in 1..Len(local)} \cup {"remote:" \o chars}

\* C36: once a search was handed to the sources, every command in the list
\* is one a source delivered for the query of the last search handed out,
\* never one delivered for an earlier query.
C36_NoMixing ==
    lastDispatched # Undefined => \A i \in 1..Len(items) : items[i] \in resultsFor(lastDispatched)

\* C37: every li that carries the highlight class is the li at the
\* highlighted index: at most one li is marked, and none when the highlighted
\* index is -1.
C37_RenderedHighlight ==
    \A i \in 1..Len(lis) : lis[i] => highlighted = i - 1

\* C38: at most one handler of the argument's Enter is bound, and one is
\* bound exactly while the quick bar waits for an argument; an Enter in the
\* argument mode executes the command that handler was bound for, once, and
\* nothing else.
C38_OneArgHandler ==
    [][/\ Len(argHandlers') <= 1
       /\ askingForArg' <=> argHandlers' # <<>>
       /\ (askingForArg /\ lastOp' = "enter" /\ argHandlers # <<>>) =>
              /\ Len(execd') = 1
              /\ execd'[1].name = argHandlers[1]]_vars

\* C39: a command is executed only by the handler of Enter, and it is the
\* command that Enter committed from the list, one that takes no argument,
\* or the command whose argument was awaited; after the handler the quick
\* bar is closed.
C39_ExecOnlyOnCommit ==
    [][execd' # <<>> =>
           /\ lastOp' = "enter"
           /\ ~qbVis'
           /\ \A j \in 1..Len(execd') :
                 \/ /\ \E i \in 1..Len(committed) : committed[i] = execd'[j].name
                    /\ ~arg(execd'[j].name)
                    /\ execd'[j].arg = Undefined
                 \/ /\ askingForArg
                    /\ \E h \in 1..Len(argHandlers) : argHandlers[h] = execd'[j].name]_vars

\* Enter in the argument mode of Go To URL executed it with the text of the
\* field and closed the quick bar.
C39_Witness ==
    /\ lastOp = "enter"
    /\ execd = << [name |-> "Go To URL", arg |-> "http://"] >>
    /\ ~qbVis
    /\ ~askingForArg

\* C40: once getRE compiled the pattern of a query, Command._reCache holds an
\* entry for that query. isMatch stores a result under a query only after
\* test, and so getRE, ran for it: every query a match cache holds is a key
\* of the pattern cache.
C40_PatternCached ==
    \A c \in 1..Len(Commands) : \A q \in DOMAIN matchCache[c] : q \in DOMAIN reCache

====
